---- MODULE Spec2Model ----
(***************************************************************************)
(* A model of escpos_jobs/jobs.py: the formatting state of a receipt job   *)
(* (PrinterState), the scoped override (PrinterStateContext), the Job's    *)
(* dispatcher and handlers, and JSONJob.  The collaborator (escpos.Escpos) *)
(* is a recorder: every call the job makes on it is appended to cmds, and  *)
(* any one call may raise (a driver failure).                              *)
(*                                                                         *)
(* Python semantics the model relies on (Python 3; the class-level         *)
(* annotations of PrinterState need 3.6 or later):                         *)
(*   - dict.items() is a view and a view is not subscriptable, so          *)
(*     msg.items()[0] raises TypeError for a dict; it yields the first     *)
(*     pair only for a mapping whose items() returns a list;               *)
(*   - `with X:` looks __enter__/__exit__ up on type(X) and raises when X  *)
(*     has none (AttributeError before 3.11, TypeError since): a plain     *)
(*     function is no context manager;                                     *)
(*   - when __enter__ raises, the body does not run and __exit__ is not    *)
(*     called; when the body raises, __exit__ is called and, as it returns *)
(*     None, the exception goes on; an exception raised by __exit__        *)
(*     replaces the one in flight;                                         *)
(*   - getattr of a name that is neither an instance nor a class attribute *)
(*     raises AttributeError; setattr creates the attribute.               *)
(***************************************************************************)
EXTENDS Integers, Sequences, FiniteSets, TLC

(* Bounds of the model. *)
\* the most nodes a generated document holds
MaxNodes == 3
\* the most calls recorded on the collaborator
MaxCmds == 5
\* the most scopes a second job has open
MaxOtherScopes == 1

VARIABLES
  state,        \* Job.state: the PrinterState's attributes, name -> value
  cmds,         \* the calls made on Job.printer, in order
  scopes,       \* the PrinterStateContexts whose with statement is open, innermost last
  exc,          \* the exception in flight or delivered to the caller, "none" if none
  call,         \* the document-level call that ended last (history)
  contents,     \* JSONJob.contents: the top-level nodes of the document
  itemsType,    \* what a node's items() returns: "view" (a dict) or "list"
  constructed,  \* whether Job.__init__ returned
  klass,        \* the attributes of the class PrinterState, which its instances share
  other         \* a second Job: whether it exists, the attributes set on its
                \* PrinterState instance, and its open scopes

vars == <<state, cmds, scopes, exc, call, contents, itemsType, constructed, klass, other>>

-----------------------------------------------------------------------------
(* Documents: a node is a single-entry mapping from an action name to a    *)
(* scalar payload or to a list of child nodes.                             *)

Leaf(a, t) == [act |-> a, shape |-> "scalar", text |-> t, kids |-> <<>>]

Block(a, ks) == [act |-> a, shape |-> "list", text |-> "", kids |-> ks]

\* the sample document of the source
foo ==
  << Leaf("printline", "asdf"),
     Leaf("image", "asdfasd"),
     Block("center",
       << Leaf("println", "foo"),
          Block("inverted",
            << Block("double_height",
                 << Block("double_height",
                      << Leaf("printline", "asdf"),
                         Leaf("b64img", "adsf12f21q3123") >>) >>) >>) >>) >>

\* the document mapping itself, {'meta': {}, 'contents': [...]}: its first item is meta
Root == [act |-> "meta", shape |-> "map", text |-> "", kids |-> <<>>]

BlockNames == {"bold", "center"}

Texts == {"a", "b"}

LeafNodes == {Leaf("textline", t) : t \in Texts} \cup {Leaf("printline", "a")}

RECURSIVE Trees(_)
RECURSIVE Forests(_)
\* the nodes with exactly n nodes in their tree (n >= 1)
Trees(n) ==
  IF n = 1
  THEN LeafNodes \cup {Block(a, <<>>) : a \in BlockNames}
  ELSE {Block(a, f) : a \in BlockNames, f \in Forests(n - 1)}

\* the node lists with exactly n nodes in all
Forests(n) ==
  IF n = 0
  THEN {<<>>}
  ELSE UNION {{<<t>> \o f : t \in Trees(k), f \in Forests(n - k)} : k \in 1..n}

Docs == UNION {Forests(n) : n \in 0..MaxNodes}

RECURSIVE NodesOf(_)
\* every node of a node list, descendants included
NodesOf(list) ==
  IF list = <<>>
  THEN {}
  ELSE {Head(list)} \cup NodesOf(Head(list).kids) \cup NodesOf(Tail(list))

ItemsTypes == {"view", "list"}

-----------------------------------------------------------------------------
(* PrinterState *)

PrinterState ==
  [font |-> "a", bold |-> FALSE, underline |-> 0, double_height |-> FALSE,
   double_width |-> FALSE, custom_size |-> FALSE, width |-> 0, height |-> 0,
   density |-> 0, invert |-> FALSE, smooth |-> FALSE, flip |-> FALSE]

kwargs_keys ==
  {"font", "bold", "underline", "double_height", "double_width", "custom_size",
   "width", "height", "density", "invert", "smooth", "flip"}

get_kwargs(st) == [k \in kwargs_keys |-> st[k]]

NoKwargs == [k \in {} |-> TRUE]

-----------------------------------------------------------------------------
(* The collaborator's calls, as the recorder sees them. *)

\* arg is the kind of value the call's positional argument is, "none" without one
SetCmd(kw, by) == [op |-> "set", kw |-> kw, text |-> "", arg |-> "none", by |-> by]

\* the handler hands its payload on as it got it: a scalar's text, or the list itself
EmitCmd(op, args) ==
  [op |-> op, kw |-> NoKwargs, text |-> args.text, arg |-> args.shape, by |-> "leaf"]

CutCmd == [op |-> "cut", kw |-> NoKwargs, text |-> "", arg |-> "none", by |-> "print"]

\* a job value: the state and the calls so far, with the outcome of the last step
Ok(j) == [state |-> j.state, cmds |-> j.cmds, exc |-> "none"]

Raise(j, kind) == [state |-> j.state, cmds |-> j.cmds, exc |-> kind]

\* one call on the collaborator; the failIdx-th call of the stream raises
PrinterCall(j, cmd, failIdx) ==
  [state |-> j.state,
   cmds |-> Append(j.cmds, cmd),
   exc |-> IF Len(j.cmds) + 1 = failIdx THEN "DriverError" ELSE "none"]

-----------------------------------------------------------------------------
(* Job.set_state and PrinterStateContext *)

\* a set_state that starts from the defaults: the attributes not named are reset
Job_set_state_resets(j, kw, by, failIdx) ==
  LET st == kw @@ PrinterState
  IN  [state |-> st,
       cmds |-> Append(j.cmds, SetCmd([k \in kwargs_keys |-> st[k]], by)),
       exc |-> IF Len(j.cmds) + 1 = failIdx THEN "DriverError" ELSE "none"]

\* setattr for every keyword, then one printer.set with all twelve attributes
Job_set_state(j, kw, by, failIdx) ==
  LET st == kw @@ j.state
  IN  PrinterCall([state |-> st, cmds |-> j.cmds],
                  SetCmd(get_kwargs(st), by), failIdx)

\* a setattr that lands on the class: every instance sees the value
PrinterState_class_written(cls, kw) == kw @@ cls

\* the class after set_state's setattr(self.state, k, v): the attribute is set on
\* the instance, the class keeps its defaults
PrinterState_class_after(cls, kw) == cls

\* attribute lookup: the instance's attribute if it has one, else the class's
PrinterState_getattr(inst, cls) == inst @@ cls

\* a constructor that pushes no baseline
Job_init_silent(failIdx) == [state |-> PrinterState, cmds |-> <<>>, exc |-> "none"]

\* Job.__init__: a fresh PrinterState, pushed to the printer as the baseline
Job_init(failIdx) ==
  Job_set_state([state |-> PrinterState, cmds |-> <<>>], NoKwargs, "init", failIdx)

\* the registry: action name -> the bound method it names
Job_get_actions == [bold |-> "bold"]

\* PrinterStateContext.__enter__: self.was, the current value of every overridden key
was_of(st, kw) == [k \in DOMAIN kw |-> st[k]]

PrinterStateContext_enter(j, kw, failIdx) ==
  IF \E k \in DOMAIN kw : k \notin DOMAIN j.state
  THEN Raise(j, "AttributeError")
  ELSE Job_set_state(j, kw, "enter", failIdx)

PrinterStateContext_exit(j, was, failIdx) ==
  Job_set_state(j, was, "exit", failIdx)

\* Job.wrapper returns the function inner, not the PrinterStateContext inner() makes
Job_wrapper(kw) == [type |-> "function", kwargs |-> kw]

-----------------------------------------------------------------------------
(* The leaf handlers *)

ValidImage == "png64"

\* base64.b64decode and Image.open succeed on the payload
Decodes(data) == data = ValidImage

\* b64decode takes a string or bytes and raises TypeError for a list
img_from_b64(j, args) ==
  IF args.shape # "scalar" THEN Raise(j, "TypeError")
  ELSE IF Decodes(args.text) THEN Ok(j) ELSE Raise(j, "DecodeError")

\* no argument of a call: newline has none
NoArgs == [shape |-> "none", text |-> ""]

\* a text line that sets the style back to plain before it prints
Job_textline_restyles(j, args, failIdx) ==
  PrinterCall(Job_set_state(j, [bold |-> FALSE], "leaf", 0), EmitCmd("textln", args), failIdx)

\* a handler's args is the node's payload; the model passes the node that carries it
Job_textline(j, args, failIdx) == PrinterCall(j, EmitCmd("textln", args), failIdx)

\* an image handler that sends before it has decoded
Job_b64img_sends_first(j, args, failIdx) ==
  LET sent == PrinterCall(j, EmitCmd("image", args), failIdx)
      img == img_from_b64(j, args)
  IN  IF sent.exc # "none" THEN sent
      ELSE [sent EXCEPT !.exc = img.exc]

Job_b64img(j, args, failIdx) ==
  LET img == img_from_b64(j, args)
  IN  IF img.exc # "none" THEN img
      ELSE PrinterCall(j, EmitCmd("image", args), failIdx)

Job_newline(j, failIdx) == PrinterCall(j, EmitCmd("ln", NoArgs), failIdx)

-----------------------------------------------------------------------------
(* The dispatcher and the block handlers *)

RECURSIVE Job_process(_, _, _, _)
RECURSIVE ForProcess(_, _, _, _)
RECURSIVE WithForProcess(_, _, _, _, _)
RECURSIVE Invoke(_, _, _, _, _)

\* for c in content: self.process(c), over a list of nodes
ForProcess(j, it, list, failIdx) ==
  IF list = <<>>
  THEN Ok(j)
  ELSE LET r == Job_process(j, it, Head(list), failIdx)
       IN  IF r.exc # "none" THEN r
           ELSE ForProcess(r, it, Tail(list), failIdx)

\* the loop over a handler's argument: a list yields its nodes, a string its
\* characters (a character has no items()), an empty mapping nothing
ForContent(j, it, content, failIdx) ==
  CASE content.shape = "list" -> ForProcess(j, it, content.kids, failIdx)
    [] content.shape = "scalar" ->
         IF content.text = "" THEN Ok(j) ELSE Raise(j, "AttributeError")
    [] OTHER -> Ok(j)

\* with cm: for c in content: self.process(c)
WithForProcess(j, it, cm, content, failIdx) ==
  IF cm.type # "PrinterStateContext"
  THEN Raise(j, "NotAContextManager")
  ELSE LET e == PrinterStateContext_enter(j, cm.kwargs, failIdx)
       IN  IF e.exc # "none" THEN e
           ELSE LET b == ForContent(e, it, content, failIdx)
                    x == PrinterStateContext_exit(b, was_of(j.state, cm.kwargs), failIdx)
                IN  IF x.exc # "none" THEN x ELSE [x EXCEPT !.exc = b.exc]

Job_bold(j, it, content, failIdx) ==
  WithForProcess(j, it, Job_wrapper([bold |-> TRUE]), content, failIdx)

Job_center(j, it, content, failIdx) ==
  WithForProcess(j, it, Job_wrapper([align |-> "center"]), content, failIdx)

Job_right(j, it, content, failIdx) ==
  WithForProcess(j, it, Job_wrapper([align |-> "right"]), content, failIdx)

\* action(args), for the bound method a registry entry names
Invoke(h, j, it, args, failIdx) ==
  CASE h = "bold" -> Job_bold(j, it, args, failIdx)
    [] h = "center" -> Job_center(j, it, args, failIdx)
    [] h = "right" -> Job_right(j, it, args, failIdx)
    [] h = "textline" -> Job_textline(j, args, failIdx)
    [] h = "b64img" -> Job_b64img(j, args, failIdx)
    [] OTHER -> Raise(j, "TypeError")

\* msg.items()[0], the registry lookup, the call
Job_process(j, it, msg, failIdx) ==
  IF it # "list"
  THEN Raise(j, "TypeError")
  ELSE IF msg.act \notin DOMAIN Job_get_actions
       THEN Raise(j, "KeyError")
       ELSE Invoke(Job_get_actions[msg.act], j, it, msg, failIdx)

\* a print that cuts whether or not the interpretation raised
Job_print_cuts_anyway(j, it, msg, failIdx) ==
  LET r == Job_process(j, it, msg, failIdx)
      c == PrinterCall(r, CutCmd, failIdx)
  IN  IF r.exc # "none" THEN [c EXCEPT !.exc = r.exc] ELSE c

Job_print(j, it, msg, failIdx) ==
  LET r == Job_process(j, it, msg, failIdx)
  IN  IF r.exc # "none" THEN r ELSE PrinterCall(r, CutCmd, failIdx)

\* JSONJob.do_print: for c in self.contents: pass
JSONJob_do_print(j, cs) == Ok(j)

-----------------------------------------------------------------------------
(* The state machine: a caller constructs a JSONJob for a document and then *)
(* calls the job's methods, directly or inside with statements over         *)
(* PrinterStateContexts.                                                    *)

\* the overrides a scope is opened with: those of the handlers, and one more attribute
Overrides ==
  {[bold |-> TRUE], [double_height |-> TRUE], [align |-> "center"], [align |-> "right"]}

ImagePayloads == {ValidImage, "asdfasd"}

\* which call of the stream raises: none (0), or one of those still to come
FailIdxs == {0} \cup (Len(cmds) + 1)..MaxCmds

\* for a step that makes one call: none, or that one
FailNext == {0, Len(cmds) + 1}

NoCall == [op |-> "none", node |-> Root, at |-> 0, before |-> PrinterState]

Called(op, node) == [op |-> op, node |-> node, at |-> Len(cmds), before |-> state]

Job == [state |-> state, cmds |-> cmds]

\* JSONJob.__init__ for one document; a failing baseline call leaves no job
InitOf(docs) ==
  /\ contents \in docs
  /\ itemsType \in ItemsTypes
  /\ \E failIdx \in {0, 1} :
       LET r == Job_init(failIdx)
       IN  /\ state = r.state
           /\ cmds = r.cmds
           /\ exc = r.exc
           /\ constructed = (r.exc = "none")
  /\ scopes = <<>>
  /\ call = NoCall
  /\ klass = PrinterState
  /\ other = [alive |-> FALSE, inst |-> NoKwargs, scopes |-> <<>>]

Init == InitOf({foo})

InitDocs == InitOf(Docs)

\* a call may start when no exception is on its way out through open scopes
CanCall == constructed /\ (exc = "none" \/ scopes = <<>>)

\* the outcome r of a document-level call c fits the recorder
Returns(r, c) ==
  /\ Len(r.cmds) + Len(scopes) <= MaxCmds
  /\ state' = r.state
  /\ cmds' = r.cmds
  /\ exc' = r.exc
  /\ call' = c
  /\ UNCHANGED <<scopes, contents, itemsType, constructed, klass, other>>

\* the outcome r of a leaf handler or of a scope's entry or exit
Steps(r) ==
  /\ state' = r.state
  /\ cmds' = r.cmds
  /\ call' = NoCall
  /\ UNCHANGED <<contents, itemsType, constructed, other>>

TopNodes == {contents[i] : i \in 1..Len(contents)}

\* what textline is called with: a text, or the list a block node carries
LineArgs == {Leaf("textline", "a")} \cup {n \in TopNodes : n.shape = "list"}

CallPrint ==
  /\ CanCall
  /\ \E msg \in {Root} \cup TopNodes, failIdx \in FailIdxs :
       Returns(Job_print(Job, itemsType, msg, failIdx), Called("print", msg))

CallProcess ==
  /\ CanCall
  /\ \E msg \in NodesOf(contents), failIdx \in FailIdxs :
       Returns(Job_process(Job, itemsType, msg, failIdx), Called("process", msg))

CallBold ==
  /\ CanCall
  /\ \E n \in TopNodes, failIdx \in FailIdxs :
       Returns(Job_bold(Job, itemsType, n, failIdx), Called("bold", n))

CallCenter ==
  /\ CanCall
  /\ \E n \in TopNodes, failIdx \in FailIdxs :
       Returns(Job_center(Job, itemsType, n, failIdx), Called("center", n))

CallRight ==
  /\ CanCall
  /\ \E n \in TopNodes, failIdx \in FailIdxs :
       Returns(Job_right(Job, itemsType, n, failIdx), Called("right", n))

CallDoPrint ==
  /\ CanCall
  /\ Returns(JSONJob_do_print(Job, contents), Called("do_print", Root))

CallTextline ==
  /\ CanCall
  /\ Len(cmds) + 1 + Len(scopes) <= MaxCmds
  /\ \E args \in LineArgs, failIdx \in FailNext :
       LET r == Job_textline(Job, args, failIdx)
       IN  Steps(r) /\ exc' = r.exc /\ UNCHANGED <<scopes, klass>>

\* job.b64img(d)
B64img(d, failIdx) ==
  LET r == Job_b64img(Job, Leaf("b64img", d), failIdx)
  IN  Steps(r) /\ exc' = r.exc /\ UNCHANGED <<scopes, klass>>

CallB64img ==
  /\ CanCall
  /\ Len(cmds) + 1 + Len(scopes) <= MaxCmds
  /\ \E d \in ImagePayloads, failIdx \in FailNext : B64img(d, failIdx)

CallNewline ==
  /\ CanCall
  /\ Len(cmds) + 1 + Len(scopes) <= MaxCmds
  /\ \E failIdx \in FailNext :
       LET r == Job_newline(Job, failIdx)
       IN  Steps(r) /\ exc' = r.exc /\ UNCHANGED <<scopes, klass>>

\* with PrinterStateContext(job, **kw): the entry; the scope is open when it returns
Enter(kw, failIdx) ==
  /\ CanCall
  /\ Len(cmds) + 2 + Len(scopes) <= MaxCmds
  /\ LET r == PrinterStateContext_enter(Job, kw, failIdx)
     IN  /\ Steps(r)
         /\ exc' = r.exc
         /\ klass' = PrinterState_class_after(klass, kw)
         /\ scopes' = IF r.exc = "none"
                      THEN Append(scopes, [kwargs |-> kw, was |-> was_of(state, kw)])
                      ELSE scopes

\* the end of the innermost with statement, by its body's end or by an exception
Exit(failIdx) ==
  /\ constructed
  /\ scopes # <<>>
  /\ LET r == PrinterStateContext_exit(Job, scopes[Len(scopes)].was, failIdx)
     IN  /\ Steps(r)
         /\ exc' = IF r.exc # "none" THEN r.exc ELSE exc
         /\ klass' = PrinterState_class_after(klass, scopes[Len(scopes)].was)
         /\ scopes' = SubSeq(scopes, 1, Len(scopes) - 1)

WithEnter == \E kw \in Overrides, failIdx \in FailNext : Enter(kw, failIdx)

WithExit == \E failIdx \in FailNext : Exit(failIdx)

\* what a caller sets directly: an attribute the class has, and one it has not
SetStateArgs == {[bold |-> TRUE], [align |-> "center"]}

\* job.set_state(**kw), called by the caller
CallSetState ==
  /\ CanCall
  /\ Len(cmds) + 1 + Len(scopes) <= MaxCmds
  /\ \E kw \in SetStateArgs, failIdx \in FailNext :
       LET r == Job_set_state(Job, kw, "call", failIdx)
       IN  /\ Steps(r)
           /\ exc' = r.exc
           /\ klass' = PrinterState_class_after(klass, kw)
           /\ UNCHANGED scopes

\* the second job's state, as getattr reads it
OtherState == PrinterState_getattr(other.inst, klass)

\* the second job's instance attributes after a step of it that left the state st
OtherInst(st, kw) == [k \in DOMAIN other.inst \cup DOMAIN kw |-> st[k]]

\* Job(printer2): a second job is made, with a PrinterState of its own; what it
\* sends goes to its own printer and is not recorded
OtherInit ==
  /\ constructed
  /\ other' = [alive |-> TRUE, inst |-> NoKwargs, scopes |-> <<>>]
  /\ UNCHANGED <<state, cmds, scopes, exc, call, contents, itemsType, constructed, klass>>

\* the entry of a with statement over a PrinterStateContext of the second job
OtherEnter ==
  /\ other.alive
  /\ Len(other.scopes) < MaxOtherScopes
  /\ \E kw \in Overrides :
       LET r == PrinterStateContext_enter([state |-> OtherState, cmds |-> <<>>], kw, 0)
       IN  /\ r.exc = "none"
           /\ other' = [other EXCEPT !.inst = OtherInst(r.state, kw),
                                      !.scopes = Append(@, was_of(OtherState, kw))]
           /\ klass' = PrinterState_class_after(klass, kw)
  /\ UNCHANGED <<state, cmds, scopes, exc, call, contents, itemsType, constructed>>

\* the end of the second job's innermost with statement
OtherExit ==
  /\ other.alive
  /\ other.scopes # <<>>
  /\ LET was == other.scopes[Len(other.scopes)]
         r == PrinterStateContext_exit([state |-> OtherState, cmds |-> <<>>], was, 0)
     IN  /\ other' = [other EXCEPT !.inst = OtherInst(r.state, was),
                                    !.scopes = SubSeq(@, 1, Len(@) - 1)]
         /\ klass' = PrinterState_class_after(klass, was)
  /\ UNCHANGED <<state, cmds, scopes, exc, call, contents, itemsType, constructed>>

NextDocs ==
  \/ CallPrint
  \/ CallProcess
  \/ CallBold
  \/ CallCenter
  \/ CallRight
  \/ CallDoPrint

Next ==
  \/ CallPrint
  \/ CallProcess
  \/ CallDoPrint
  \/ CallTextline
  \/ CallB64img
  \/ CallNewline
  \/ WithEnter
  \/ WithExit

NextJobs ==
  \/ WithEnter
  \/ WithExit
  \/ CallSetState
  \/ OtherInit
  \/ OtherEnter
  \/ OtherExit

\* the job's whole interface, on the sample document
Spec == Init /\ [][Next]_vars

\* the document-level calls, on every document of the bounds
SpecDocs == InitDocs /\ [][NextDocs]_vars

\* two jobs, their scopes interleaved, and direct calls of set_state
SpecJobs == Init /\ [][NextJobs]_vars

-----------------------------------------------------------------------------
(* What the claims speak of *)

\* the calls the last document-level call made on the collaborator
Since == SubSeq(cmds, call.at + 1, Len(cmds))

\* a call as the collaborator receives it
Sent(c) == [op |-> c.op, kw |-> c.kw, text |-> c.text]

SentSeq(seq) == [i \in 1..Len(seq) |-> Sent(seq[i])]

ApplyStyle(st) == [op |-> "set", kw |-> get_kwargs(st), text |-> ""]

EmitTextLine(t) == [op |-> "textln", kw |-> NoKwargs, text |-> t]

Cut == [op |-> "cut", kw |-> NoKwargs, text |-> ""]

CountOp(seq, op) == Cardinality({i \in 1..Len(seq) : seq[i].op = op})

RECURSIVE OnlyBold(_)
\* a bold block all of whose descendants are bold blocks: it has nothing that may fail
OnlyBold(n) ==
  /\ n.act = "bold"
  /\ n.shape = "list"
  /\ \A i \in 1..Len(n.kids) : OnlyBold(n.kids[i])

RECURSIVE NumBlocks(_)
\* the block nodes of a node list, descendants included
NumBlocks(list) ==
  IF list = <<>> THEN 0
  ELSE (IF Head(list).shape = "list" THEN 1 ELSE 0)
       + NumBlocks(Head(list).kids) + NumBlocks(Tail(list))

\* a list of text-line leaves
TextLines(list) ==
  \A i \in 1..Len(list) : list[i].act = "textline" /\ list[i].shape = "scalar"

RECURSIVE Printable(_)
\* a node list of text lines and bold blocks only
Printable(list) ==
  \/ list = <<>>
  \/ /\ \/ Head(list).act = "textline" /\ Head(list).shape = "scalar"
        \/ Head(list).act = "bold" /\ Head(list).shape = "list"
                                   /\ Printable(Head(list).kids)
     /\ Printable(Tail(list))

RECURSIVE LeafTexts(_)
\* the payloads of the leaves of a node list, in document order
LeafTexts(list) ==
  IF list = <<>> THEN <<>>
  ELSE (IF Head(list).shape = "list" THEN LeafTexts(Head(list).kids)
        ELSE <<Head(list).text>>) \o LeafTexts(Tail(list))

RECURSIVE EmittedTexts(_)
\* the payloads of the emit calls of a stream, in order
EmittedTexts(seq) ==
  IF seq = <<>> THEN <<>>
  ELSE (IF seq[1].op \in {"textln", "image", "ln"} THEN <<seq[1].text>> ELSE <<>>)
       \o EmittedTexts(Tail(seq))

\* the last call interpreted block b: Job.process or Job.print on the node, or
\* the handler on its children
Interpreted(b) ==
  \/ call.op \in {"process", "print"} /\ call.node = b
  \/ call.op = "bold" /\ b.act = "bold" /\ call.node.shape = b.shape
                      /\ call.node.kids = b.kids

-----------------------------------------------------------------------------
(* C1: once a block has been interpreted and its scope closed, the         *)
(* FormatState equals the one before the block, at every depth.  Stated    *)
(* of the blocks nothing lets fail, bold blocks holding bold blocks only:  *)
(* their interpretation ends without an error, with the scope closed by    *)
(* the restoring apply_style, in the state it began in.                    *)
C1_BlockRestoresState ==
  \A b \in NodesOf(contents) :
    (Interpreted(b) /\ call.op # "print" /\ OnlyBold(b) /\ exc # "DriverError") =>
      /\ exc = "none"
      /\ state = call.before
      /\ Since # <<>>
      /\ Sent(Since[Len(Since)]) = ApplyStyle(call.before)

(* C2: set_state with a partial override, as a scope's entry and exit      *)
(* apply it, changes only the attributes the override names; every other   *)
(* attribute keeps its value.                                              *)
C2_OverrideChangesOnlyNamed ==
  [][/\ \A kw \in Overrides, failIdx \in FailNext :
          Enter(kw, failIdx) =>
            \A k \in DOMAIN state \ DOMAIN kw :
              k \in DOMAIN state' /\ state'[k] = state[k]
     /\ \A failIdx \in FailNext :
          Exit(failIdx) =>
            \A k \in DOMAIN state \ DOMAIN scopes[Len(scopes)].was :
              k \in DOMAIN state' /\ state'[k] = state[k]]_vars

\* a scope has overridden double_height while an enclosing scope's bold is in force
C2_Witness ==
  /\ Len(scopes) = 2
  /\ scopes[1].kwargs = [bold |-> TRUE]
  /\ scopes[2].kwargs = [double_height |-> TRUE]
  /\ state.bold = TRUE
  /\ state.double_height = TRUE

(* C3: Job.print of a document that is interpreted without error emits the *)
(* cut exactly once, as the last command.  Stated of the documents nothing *)
(* lets fail, bold blocks holding bold blocks only.                        *)
C3_CutOnceAndLast ==
  (call.op = "print" /\ OnlyBold(call.node) /\ exc # "DriverError") =>
    /\ exc = "none"
    /\ CountOp(Since, "cut") = 1
    /\ Since[Len(Since)].op = "cut"

(* C4: interpreting a node whose action has no registry entry ends in the  *)
(* unknown-action error (the registry's KeyError).                         *)
C4_UnknownActionRaises ==
  (/\ call.op \in {"process", "print"}
   /\ call.node \in NodesOf(contents)
   /\ call.node.act \notin DOMAIN Job_get_actions) =>
    exc = "KeyError"

(* C5: the stream brackets a block: for a bold block around text lines,    *)
(* printed, apply_style(bold=true), the lines in order, apply_style with   *)
(* the values restored, cut.                                               *)
C5_StreamBracketsBlock ==
  (/\ call.op = "print"
   /\ call.node.act = "bold"
   /\ call.node.shape = "list"
   /\ call.node.kids # <<>>
   /\ TextLines(call.node.kids)
   /\ exc # "DriverError") =>
    SentSeq(Since) =
      <<ApplyStyle([bold |-> TRUE] @@ call.before)>>
      \o [i \in 1..Len(call.node.kids) |-> EmitTextLine(call.node.kids[i].text)]
      \o <<ApplyStyle(call.before), Cut>>

(* C6: a document with n blocks, interpreted without error, has apply_style *)
(* called 2n + 1 times, the baseline included.  Stated of the documents    *)
(* nothing lets fail, bold blocks holding bold blocks only, printed by a   *)
(* job that has sent its baseline and nothing else.                        *)
C6_ApplyStyleCount ==
  (call.op = "print" /\ OnlyBold(call.node) /\ call.at = 1 /\ exc # "DriverError") =>
    CountOp(cmds, "set") = 2 * NumBlocks(<<call.node>>) + 1

(* C7: an error raised while a block's children are interpreted closes the *)
(* block's scope on its way out: the restoring apply_style is issued, the  *)
(* error reaches the caller and the FormatState is the one before the      *)
(* block.  Stated of a bold block whose first child has an unregistered    *)
(* action.                                                                 *)
C7_ErrorClosesScopes ==
  \A b \in NodesOf(contents) :
    (/\ Interpreted(b)
     /\ b.act = "bold"
     /\ b.shape = "list"
     /\ b.kids # <<>>
     /\ b.kids[1].act \notin DOMAIN Job_get_actions
     /\ exc # "DriverError") =>
      /\ exc # "none"
      /\ state = call.before
      /\ Len(Since) >= 2
      /\ Sent(Since[1]) = ApplyStyle([bold |-> TRUE] @@ call.before)
      /\ Sent(Since[Len(Since)]) = ApplyStyle(call.before)

(* C8: after a collaborator call failed with a DriverError, the entry or   *)
(* exit of a scope included, the error is with the caller and, once every  *)
(* scope has ended, no attribute holds a scope's override.                 *)
C8_ConsistentAfterDriverError ==
  (constructed /\ exc = "DriverError" /\ scopes = <<>>) => state = PrinterState

(* C9: the first command of a job is the apply_style with the documented   *)
(* default of every attribute; it is made once, before every emit, every   *)
(* scope's apply_style and the cut.                                        *)
C9_BaselineFirstAndOnce ==
  /\ Len(cmds) >= 1
  /\ cmds[1].by = "init"
  /\ Sent(cmds[1]) =
       [op |-> "set", text |-> "",
        kw |-> [font |-> "a", bold |-> FALSE, underline |-> 0,
                double_height |-> FALSE, double_width |-> FALSE,
                custom_size |-> FALSE, width |-> 0, height |-> 0, density |-> 0,
                invert |-> FALSE, smooth |-> FALSE, flip |-> FALSE]]
  /\ \A i \in 2..Len(cmds) : cmds[i].by # "init"

\* a print was asked for after the baseline, a scope's apply_style and an emit
C9_Witness ==
  /\ call.op = "print"
  /\ Len(cmds) >= 3
  /\ cmds[2].by = "enter"
  /\ cmds[3].op = "textln"

(* C10: printing a document interprets every node once, in document order: *)
(* the emits are the document's leaves, in order.  Stated of the documents *)
(* of text lines and bold blocks.                                          *)
C10_EmitsInDocumentOrder ==
  (/\ \/ call.op = "do_print"
      \/ call.op = "print" /\ call.node = Root
   /\ Printable(contents)
   /\ exc # "DriverError") =>
    EmittedTexts(Since) = LeafTexts(contents)

(* C11: a node whose payload has the wrong shape for its action ends in a  *)
(* shape error and is not interpreted as if the shape were valid: no text  *)
(* line is emitted for a payload that is a list.                           *)
C11_ShapeMismatchAborts ==
  \A i \in 1..Len(cmds) : cmds[i].op = "textln" => cmds[i].arg = "scalar"

(* C12: the lines of a center block are emitted while the style last       *)
(* pushed to the collaborator has the alignment center, and after the      *)
(* block the alignment is the one before it.  Stated of Job.center on a    *)
(* block of text lines: apply_style with align center, the lines in order, *)
(* apply_style with the values restored.                                   *)
C12_CenterAlignsLines ==
  (/\ call.op = "center"
   /\ call.node.act = "center"
   /\ call.node.shape = "list"
   /\ call.node.kids # <<>>
   /\ TextLines(call.node.kids)
   /\ exc # "DriverError") =>
    /\ Len(Since) = Len(call.node.kids) + 2
    /\ Since[1].op = "set"
    /\ "align" \in DOMAIN Since[1].kw
    /\ Since[1].kw.align = "center"
    /\ \A i \in 1..Len(call.node.kids) :
         Sent(Since[i + 1]) = EmitTextLine(call.node.kids[i].text)
    /\ Sent(Since[Len(Since)]) = ApplyStyle(call.before)
    /\ state = call.before

(* C13: the FormatState is not shared between jobs: the entry or exit of a *)
(* scope of one job, and its set_state, leave the FormatState of the other *)
(* job as it was, and a job made after another has changed its state       *)
(* starts from the documented defaults.                                    *)
C13_StateNotShared ==
  [][/\ (WithEnter \/ WithExit \/ CallSetState) => OtherState' = OtherState
     /\ OtherInit => OtherState' = PrinterState]_vars

\* each job is inside a scope of its own: the first has bold, the second double height
C13_Witness ==
  /\ other.alive
  /\ scopes # <<>>
  /\ state.bold = TRUE
  /\ state.double_height = FALSE
  /\ other.scopes # <<>>
  /\ OtherState.bold = FALSE
  /\ OtherState.double_height = TRUE

(* C14: the FormatState changes only at the entry and the exit of a scope: *)
(* a leaf handler (textline, b64img, newline), Job.process and Job.print   *)
(* with its cut leave every attribute as it was and make no apply_style    *)
(* call.                                                                   *)
C14_StateChangesOnlyAtScopes ==
  [][\/ state' = state /\ CountOp(cmds', "set") = CountOp(cmds, "set")
     \/ ~(CallTextline \/ CallB64img \/ CallNewline \/ CallProcess \/ CallPrint)]_vars

\* inside a bold scope a text line was emitted and Job.process was called
C14_Witness ==
  /\ Len(scopes) = 1
  /\ state.bold = TRUE
  /\ Len(cmds) = 3
  /\ cmds[2].by = "enter"
  /\ cmds[3].op = "textln"
  /\ call.op = "process"
  /\ call.at = 3

(* C15: a leaf node interpreted through the dispatcher has exactly one     *)
(* primitive of the collaborator invoked for it.  Stated of a text line    *)
(* given to Job.process: the stream gains its emit-text-line and nothing   *)
(* else.                                                                   *)
C15_LeafInvokesOnePrimitive ==
  (/\ call.op = "process"
   /\ call.node.act = "textline"
   /\ call.node.shape = "scalar"
   /\ exc # "DriverError") =>
    SentSeq(Since) = <<EmitTextLine(call.node.text)>>

RECURSIVE OpenAfter(_, _)
\* the scopes open after a stream that began with d of them open: an entry's
\* apply_style opens one, an exit's closes the innermost; -1 if one was closed
\* that was not open
OpenAfter(seq, d) ==
  IF d < 0 \/ seq = <<>> THEN d
  ELSE OpenAfter(Tail(seq), CASE seq[1].by = "enter" -> d + 1
                              [] seq[1].by = "exit" -> d - 1
                              [] OTHER -> d)

(* C16: where the job emits the cut no scope is open and the FormatState   *)
(* is the baseline, attribute for attribute; scopes close in the reverse   *)
(* order of their opening and none outlives its block.  Stated of the      *)
(* documents nothing lets fail, bold blocks holding bold blocks only: the  *)
(* print, by a job that has sent its baseline and nothing else, reaches    *)
(* its cut, every scope opened before it has been closed, and the state    *)
(* and the style last pushed are the defaults.                             *)
C16_NoScopeOpenAtCut ==
  (call.op = "print" /\ OnlyBold(call.node) /\ call.at = 1 /\ exc # "DriverError") =>
    /\ Len(Since) >= 3
    /\ Since[Len(Since)].op = "cut"
    /\ OpenAfter(SubSeq(Since, 1, Len(Since) - 1), 0) = 0
    /\ Since[Len(Since) - 1].by = "exit"
    /\ Since[Len(Since) - 1].kw = get_kwargs(PrinterState)
    /\ state = PrinterState
    /\ scopes = <<>>

(* C17: when the payload of an image fails to decode, the handler raises   *)
(* the decoding error, no emit-image call is made for it and the           *)
(* FormatState is as it was.                                               *)
C17_DecodeErrorEmitsNothing ==
  [][\A d \in ImagePayloads :
       (~Decodes(d) /\ \E failIdx \in FailNext : B64img(d, failIdx)) =>
         /\ exc' = "DecodeError"
         /\ cmds' = cmds
         /\ state' = state]_vars

\* an image failed to decode inside a bold scope, after the scope's apply_style
C17_Witness ==
  /\ exc = "DecodeError"
  /\ Len(scopes) = 1
  /\ state.bold = TRUE
  /\ Len(cmds) = 2
  /\ cmds[2].by = "enter"

(* C18: the registry holds bold and nothing else; Job.process given a node *)
(* with any other action, those of the sample among them, ends in the      *)
(* unsupported-action error (the registry's KeyError) and reaches no       *)
(* handler: nothing is sent and the state is as it was.                    *)
C18_OnlyBoldRegistered ==
  /\ DOMAIN Job_get_actions = {"bold"}
  /\ (/\ call.op = "process"
      /\ call.node \in NodesOf(contents)
      /\ call.node.act # "bold") =>
       /\ exc = "KeyError"
       /\ Since = <<>>
       /\ state = call.before

\* the index of the last apply_style of the stream, 0 if it has none
LastSet ==
  LET sets == {i \in 1..Len(cmds) : cmds[i].op = "set"}
  IN  IF sets = {} THEN 0 ELSE CHOOSE i \in sets : \A k \in sets : k <= i

(* C19: after every set_state that has returned, the style last pushed to  *)
(* the collaborator has every attribute the FormatState holds, the ones a  *)
(* block overrides included, with the value the FormatState has.           *)
C19_PushedStyleIsFullState ==
  (constructed /\ exc = "none" /\ LastSet > 0) =>
    \A k \in DOMAIN state :
      k \in DOMAIN cmds[LastSet].kw /\ cmds[LastSet].kw[k] = state[k]

(* C20: when the interpretation of a document ends in an error, Job.print  *)
(* emits no cut and no emit for a node after the failing one: what was     *)
(* emitted is a beginning of the document's leaves, in order, and the only *)
(* other calls are the apply_style of scopes.                              *)
C20_AbortEmitsNoCut ==
  (call.op = "print" /\ exc # "none") =>
    /\ CountOp(Since, "cut") = 0
    /\ LET e == EmittedTexts(Since)
           l == LeafTexts(<<call.node>>)
       IN  Len(e) <= Len(l) /\ e = SubSeq(l, 1, Len(e))
    /\ \A i \in 1..Len(Since) :
         Since[i].op = "set" => Since[i].by \in {"enter", "exit"}

\* the print of a bold block with two children ended in an error
C20_Witness ==
  /\ call.op = "print"
  /\ exc # "none"
  /\ call.node.act = "bold"
  /\ Len(call.node.kids) = 2

====
